---- MODULE Spec2Model ----
(***************************************************************************)
(* A model of linechunks (src/src/lib.rs): the LineChunks iterator, which  *)
(* cuts a byte stream into line-aligned chunks, and the LineSplitParse     *)
(* iterator, which cuts one chunk into its non-empty lines.                *)
(*                                                                         *)
(* Bytes are small integers, NL is b'\n'.  Indices and slices follow the   *)
(* source: offsets are 0-based and Slice(s, a, b) is s[a..b].  An          *)
(* Option<usize> is <<>> for None and <<i>> for Some(i).                   *)
(***************************************************************************)
EXTENDS Integers, Sequences, FiniteSets, TLC

\* ---- bounds of the model ------------------------------------------------
MaxLen == 4        \* longest finite input / longest chunk given to the splitter
MaxPrefix == 2     \* longest input an endless source delivers before its Filler
MaxChunkSize == 3  \* largest chunksize passed to LineChunks::new
MaxSetting == 3    \* largest size passed to max_line() and min_chunk()
MaxFairLen == 1    \* longest input of the runs checked for termination

NL == 10
Filler == 0         \* the byte an endless source keeps delivering (/dev/zero)
Bytes == {NL, Filler, 98}
ErrorKinds == {"Interrupted", "Other"}   \* failures the source may report

VARIABLES
    input,      \* the finite part of the source's byte stream
    endless,    \* TRUE: after input the source delivers Filler forever (/dev/zero)
    srcpos,     \* number of bytes the source has delivered so far
    didRead,    \* the last step called read on the source
    srcErr,     \* "none", or the kind of the failure the source reported
    chunksize,  \* self.buffer.capacity()
    buffer,     \* the unconsumed bytes of the BufReader
    finished,   \* self.finished
    accum,      \* self.accum
    max_line,   \* self.max_line
    min_chunk,  \* self.min_chunk
    pc,         \* "idle": between calls of next; "loop": at the head of its loop
    started,    \* next has been called at least once
    items,      \* the Some(..) items next has returned so far, in order
    ret,        \* what the last finished call of next returned
    eofFlush,   \* the last item is the accumulator released at end of input
    buf,        \* LineSplitParse.buf
    lim,        \* LineSplitParse.lim
    out,        \* the parser results LineSplitParse::next has returned so far
    lsRet       \* what the last call of LineSplitParse::next returned

srcVars == <<input, endless, srcpos, didRead, srcErr>>
chunkVars == <<chunksize, buffer, finished, accum, max_line, min_chunk>>
callVars == <<pc, started, items, ret, eofFlush>>
splitVars == <<buf, lim, out, lsRet>>
vars == <<srcVars, chunkVars, callVars, splitVars>>

\* ---- sequences ----------------------------------------------------------
Min(a, b) == IF a <= b THEN a ELSE b

SeqsUpTo(S, n) == UNION {[1..k -> S] : k \in 0..n}

\* s[a..b] of the source: 0-based, b excluded
Slice(s, a, b) == SubSeq(s, a + 1, b)

Last(s) == s[Len(s)]

\* ---- the byte source ----------------------------------------------------
StreamByte(i) == IF i <= Len(input) THEN input[i] ELSE Filler

\* the n bytes the source delivers after the first p
Stream(p, n) == [i \in 1..n |-> StreamByte(p + i)]

\* bytes the source can still deliver to one read
Avail == IF endless THEN chunksize ELSE Len(input) - srcpos

\* a read into the BufReader's buffer returns 0 at end of input and
\* otherwise between 1 and capacity bytes
ReadSizes == IF Avail = 0 THEN {0} ELSE 1..Min(chunksize, Avail)

\* ---- LineChunks ---------------------------------------------------------
Ok(data) == [tag |-> "Ok", kind |-> "", data |-> data]
Err(kind) == [tag |-> "Err", kind |-> kind, data |-> <<>>]

\* Memrchr searching for the wrong byte
MemrchrWrongByte(chunk) ==
    LET hits == {i \in 0..(Len(chunk) - 1) : chunk[i + 1] = Filler}
    IN IF hits = {} THEN <<>>
       ELSE <<CHOOSE i \in hits : \A j \in hits : j <= i>>

\* memchr::memrchr(b'\n', chunk)
Memrchr(chunk) ==
    LET hits == {i \in 0..(Len(chunk) - 1) : chunk[i + 1] = NL}
    IN IF hits = {} THEN <<>>
       ELSE <<CHOOSE i \in hits : \A j \in hits : j <= i>>

\* EolOf leaving the '\n' out
EolOfExcluded(m) == m[1]

\* let eol = eol + 1: the end of the chunk's last line, '\n' included
EolOf(m) == m[1] + 1

\* Consume dropping everything that was filled
ConsumeAll(b, n) == <<>>

\* self.buffer.consume(n), on the unconsumed bytes b
Consume(b, n) == Slice(b, n, Len(b))

\* TooLong letting one byte more through
TooLongOffByOne == Len(accum) > max_line + 1

\* TooLong tripping already at the limit
TooLongAtLimit == Len(accum) >= max_line

\* LargeEnough accepting a chunk one byte short
LargeEnoughOffByOne(b) == Len(b) + 1 >= min_chunk

\* self.accum.len() > self.max_line
TooLong == Len(accum) > max_line

\* buf.len() >= self.min_chunk
LargeEnough(b) == Len(b) >= min_chunk

\* The successful results of self.buffer.fill_buf(): the unconsumed bytes when
\* there are some, otherwise what one read of the source delivers.
Fills ==
    IF buffer # <<>> THEN {[chunk |-> buffer, n |-> 0, read |-> FALSE]}
    ELSE {[chunk |-> Stream(srcpos, k), n |-> k, read |-> TRUE] : k \in ReadSizes}

\* the effect of a successful fill_buf on the source
Filled(f) ==
    /\ srcpos' = srcpos + f.n
    /\ didRead' = f.read
    /\ UNCHANGED <<input, endless, srcErr>>

Init ==
    /\ endless \in BOOLEAN
    /\ input \in SeqsUpTo(Bytes, IF endless THEN MaxPrefix ELSE MaxLen)
    /\ srcpos = 0
    /\ didRead = FALSE
    /\ srcErr = "none"
    /\ chunksize \in 1..MaxChunkSize
    /\ buffer = <<>>
    /\ finished = FALSE
    /\ accum = <<>>
    /\ max_line = chunksize * 32
    /\ min_chunk = (chunksize * 3) \div 4
    /\ pc = "idle"
    /\ started = FALSE
    /\ items = <<>>
    /\ ret = "NoCall"
    /\ eofFlush = FALSE
    /\ buf = <<>>
    /\ lim = 0
    /\ out = <<>>
    /\ lsRet = "NoCall"

\* LineChunks::max_line, called before the first pull
SetMaxLine ==
    /\ pc = "idle" /\ ~started
    /\ \E size \in 0..MaxSetting : max_line' = size
    /\ UNCHANGED <<srcVars, chunksize, buffer, finished, accum, min_chunk,
                   callVars, splitVars>>

\* LineChunks::min_chunk, called before the first pull
SetMinChunk ==
    /\ pc = "idle" /\ ~started
    /\ \E size \in 0..MaxSetting : min_chunk' = size
    /\ UNCHANGED <<srcVars, chunksize, buffer, finished, accum, max_line,
                   callVars, splitVars>>

\* a call of LineChunks::next enters its loop
Call ==
    /\ pc = "idle"
    /\ pc' = "loop"
    /\ started' = TRUE
    /\ didRead' = FALSE
    /\ UNCHANGED <<input, endless, srcpos, srcErr, chunkVars, items, ret,
                   eofFlush, splitVars>>

\* if self.finished { break None }
ReturnFinished ==
    /\ pc = "loop" /\ finished
    /\ pc' = "idle"
    /\ ret' = "None"
    /\ didRead' = FALSE
    /\ UNCHANGED <<input, endless, srcpos, srcErr, chunkVars, started, items,
                   eofFlush, splitVars>>

\* LineTooLong forgetting to set finished
LineTooLongNotFinished ==
    /\ pc = "loop" /\ ~finished
    /\ TooLong
    /\ finished' = finished
    /\ items' = Append(items, Err("OutOfMemory"))
    /\ ret' = "Some"
    /\ eofFlush' = FALSE
    /\ pc' = "idle"
    /\ didRead' = FALSE
    /\ UNCHANGED <<input, endless, srcpos, srcErr, chunksize, buffer, accum,
                   max_line, min_chunk, started, splitVars>>

\* the accumulator has outgrown max_line: finish with an OutOfMemory error
LineTooLong ==
    /\ pc = "loop" /\ ~finished
    /\ TooLong
    /\ finished' = TRUE
    /\ items' = Append(items, Err("OutOfMemory"))
    /\ ret' = "Some"
    /\ eofFlush' = FALSE
    /\ pc' = "idle"
    /\ didRead' = FALSE
    /\ UNCHANGED <<input, endless, srcpos, srcErr, chunksize, buffer, accum,
                   max_line, min_chunk, started, splitVars>>

\* FillErr forgetting to set finished
FillErrNotFinished ==
    /\ pc = "loop" /\ ~finished
    /\ ~TooLong
    /\ buffer = <<>>
    /\ \E kind \in ErrorKinds :
         /\ srcErr' = kind
         /\ items' = Append(items, Err(kind))
    /\ didRead' = TRUE
    /\ finished' = finished
    /\ ret' = "Some"
    /\ eofFlush' = FALSE
    /\ pc' = "idle"
    /\ UNCHANGED <<input, endless, srcpos, chunksize, buffer, accum, max_line,
                   min_chunk, started, splitVars>>

\* fill_buf fails: the read of the source reports an error
FillErr ==
    /\ pc = "loop" /\ ~finished
    /\ ~TooLong
    /\ buffer = <<>>
    /\ \E kind \in ErrorKinds :
         /\ srcErr' = kind
         /\ items' = Append(items, Err(kind))
    /\ didRead' = TRUE
    /\ finished' = TRUE
    /\ ret' = "Some"
    /\ eofFlush' = FALSE
    /\ pc' = "idle"
    /\ UNCHANGED <<input, endless, srcpos, chunksize, buffer, accum, max_line,
                   min_chunk, started, splitVars>>

\* Eof releasing the accumulator even when it is empty
EofAlwaysYield ==
    /\ pc = "loop" /\ ~finished
    /\ ~TooLong
    /\ \E f \in Fills :
         /\ f.chunk = <<>>
         /\ Filled(f)
    /\ finished' = TRUE
    /\ accum' = <<>>
    /\ ret' = "Some"
    /\ items' = Append(items, Ok(accum))
    /\ eofFlush' = TRUE
    /\ pc' = "idle"
    /\ UNCHANGED <<chunksize, buffer, max_line, min_chunk, started, splitVars>>

\* Eof tested before the length of the accumulator
EofBeforeLengthCheck ==
    /\ pc = "loop" /\ ~finished
    /\ \E f \in Fills :
         /\ f.chunk = <<>>
         /\ Filled(f)
    /\ finished' = TRUE
    /\ accum' = <<>>
    /\ IF accum = <<>>
          THEN /\ ret' = "None"
               /\ UNCHANGED <<items, eofFlush>>
          ELSE /\ ret' = "Some"
               /\ items' = Append(items, Ok(accum))
               /\ eofFlush' = TRUE
    /\ pc' = "idle"
    /\ UNCHANGED <<chunksize, buffer, max_line, min_chunk, started, splitVars>>

\* fill_buf returns an empty chunk: end of input
Eof ==
    /\ pc = "loop" /\ ~finished
    /\ ~TooLong
    /\ \E f \in Fills :
         /\ f.chunk = <<>>
         /\ Filled(f)
    /\ finished' = TRUE
    /\ accum' = <<>>
    /\ IF accum = <<>>
          THEN /\ ret' = "None"
               /\ UNCHANGED <<items, eofFlush>>
          ELSE /\ ret' = "Some"
               /\ items' = Append(items, Ok(accum))
               /\ eofFlush' = TRUE
    /\ pc' = "idle"
    /\ UNCHANGED <<chunksize, buffer, max_line, min_chunk, started, splitVars>>

\* EmitChunk yielding a copy and keeping the accumulator
EmitChunkKeepAccum ==
    /\ pc = "loop" /\ ~finished
    /\ ~TooLong
    /\ \E f \in Fills :
         /\ f.chunk # <<>>
         /\ Memrchr(f.chunk) # <<>>
         /\ LET eol == EolOf(Memrchr(f.chunk))
                b == accum \o Slice(f.chunk, 0, eol)
            IN /\ LargeEnough(b)
               /\ buffer' = Consume(f.chunk, eol)
               /\ items' = Append(items, Ok(b))
         /\ Filled(f)
    /\ accum' = accum
    /\ ret' = "Some"
    /\ eofFlush' = FALSE
    /\ pc' = "idle"
    /\ UNCHANGED <<chunksize, finished, max_line, min_chunk, started, splitVars>>

\* the chunk holds a '\n' and accum plus the chunk up to it is large enough
EmitChunk ==
    /\ pc = "loop" /\ ~finished
    /\ ~TooLong
    /\ \E f \in Fills :
         /\ f.chunk # <<>>
         /\ Memrchr(f.chunk) # <<>>
         /\ LET eol == EolOf(Memrchr(f.chunk))
                b == accum \o Slice(f.chunk, 0, eol)
            IN /\ LargeEnough(b)
               /\ buffer' = Consume(f.chunk, eol)
               /\ items' = Append(items, Ok(b))
         /\ Filled(f)
    /\ accum' = <<>>
    /\ ret' = "Some"
    /\ eofFlush' = FALSE
    /\ pc' = "idle"
    /\ UNCHANGED <<chunksize, finished, max_line, min_chunk, started, splitVars>>

\* the chunk holds a '\n' but the result is short: put it back into accum
PutBack ==
    /\ pc = "loop" /\ ~finished
    /\ ~TooLong
    /\ \E f \in Fills :
         /\ f.chunk # <<>>
         /\ Memrchr(f.chunk) # <<>>
         /\ LET eol == EolOf(Memrchr(f.chunk))
                b == accum \o Slice(f.chunk, 0, eol)
            IN /\ ~LargeEnough(b)
               /\ buffer' = Consume(f.chunk, eol)
               /\ accum' = b
         /\ Filled(f)
    /\ UNCHANGED <<chunksize, finished, max_line, min_chunk, callVars, splitVars>>

\* NoEol putting the chunk in front of the accumulated bytes
NoEolPrepend ==
    /\ pc = "loop" /\ ~finished
    /\ ~TooLong
    /\ \E f \in Fills :
         /\ f.chunk # <<>>
         /\ Memrchr(f.chunk) = <<>>
         /\ accum' = f.chunk \o accum
         /\ buffer' = Consume(f.chunk, Len(f.chunk))
         /\ Filled(f)
    /\ UNCHANGED <<chunksize, finished, max_line, min_chunk, callVars, splitVars>>

\* the chunk holds no '\n': append all of it to accum
NoEol ==
    /\ pc = "loop" /\ ~finished
    /\ ~TooLong
    /\ \E f \in Fills :
         /\ f.chunk # <<>>
         /\ Memrchr(f.chunk) = <<>>
         /\ accum' = accum \o f.chunk
         /\ buffer' = Consume(f.chunk, Len(f.chunk))
         /\ Filled(f)
    /\ UNCHANGED <<chunksize, finished, max_line, min_chunk, callVars, splitVars>>

Next ==
    \/ SetMaxLine
    \/ SetMinChunk
    \/ Call
    \/ ReturnFinished
    \/ LineTooLong
    \/ FillErr
    \/ Eof
    \/ EmitChunk
    \/ PutBack
    \/ NoEol

Spec == Init /\ [][Next]_vars

\* one iteration of the loop of LineChunks::next
Step ==
    \/ ReturnFinished
    \/ LineTooLong
    \/ FillErr
    \/ Eof
    \/ EmitChunk
    \/ PutBack
    \/ NoEol

\* A call of next keeps running on its thread and a blocking read of the
\* source returns, so an iteration that can be taken is taken.  Nothing makes
\* the caller pull again.
FairInit == Init /\ Len(input) <= MaxFairLen

FairSpec == FairInit /\ [][Next]_vars /\ WF_vars(Step)

\* ---- LineSplitParse -----------------------------------------------------
\* memchr::memchr(b'\n', s)
Memchr(s) ==
    LET hits == {i \in 0..(Len(s) - 1) : s[i + 1] = NL}
    IN IF hits = {} THEN <<>>
       ELSE <<CHOOSE i \in hits : \A j \in hits : i <= j>>

\* the parser of the tests: Some(s.to_vec())
Parser(slice) == [some |-> slice]

\* SplitPoint losing a last line that has no '\n'
SplitPointDropTail(b, l) ==
    LET m == Memchr(Slice(b, l, Len(b)))
    IN IF m # <<>> THEN [eol |-> l + m[1], new_lim |-> l + m[1] + 1]
       ELSE [eol |-> l, new_lim |-> Len(b)]

\* (eol, new_lim): the end of the line that starts at l and the start of the
\* next one
SplitPoint(b, l) ==
    LET m == Memchr(Slice(b, l, Len(b)))
    IN IF m # <<>> THEN [eol |-> l + m[1], new_lim |-> l + m[1] + 1]
       ELSE [eol |-> Len(b), new_lim |-> Len(b)]

\* One call of LineSplitParse::next on chunk b with cursor l: the new cursor
\* and the returned Option, the loop skipping empty slices.
RECURSIVE LineSplitParseNext(_, _)
LineSplitParseNext(b, l) ==
    IF l = Len(b) THEN [lim |-> l, ret |-> <<>>]
    ELSE LET p == SplitPoint(b, l)
             slice == Slice(b, l, p.eol)
         IN IF slice = <<>> THEN LineSplitParseNext(b, p.new_lim)
            ELSE [lim |-> p.new_lim, ret |-> <<Parser(slice)>>]

\* everything a LineSplitParse over chunk b yields when pulled from cursor l
\* to the end
RECURSIVE PullAll(_, _)
PullAll(b, l) ==
    LET r == LineSplitParseNext(b, l)
    IN IF r.ret = <<>> THEN <<>> ELSE r.ret \o PullAll(b, r.lim)

\* LineSplitParse::new on any chunk; no LineChunks is running
InitSplit ==
    /\ input = <<>>
    /\ endless = FALSE
    /\ srcpos = 0
    /\ didRead = FALSE
    /\ srcErr = "none"
    /\ chunksize = 1
    /\ buffer = <<>>
    /\ finished = FALSE
    /\ accum = <<>>
    /\ max_line = chunksize * 32
    /\ min_chunk = (chunksize * 3) \div 4
    /\ pc = "idle"
    /\ started = FALSE
    /\ items = <<>>
    /\ ret = "NoCall"
    /\ eofFlush = FALSE
    /\ buf \in SeqsUpTo(Bytes, MaxLen)
    /\ lim = 0
    /\ out = <<>>
    /\ lsRet = "NoCall"

\* LineSplitParse::next returns the parser's result for the next line
SplitSome ==
    /\ LET r == LineSplitParseNext(buf, lim)
       IN /\ r.ret # <<>>
          /\ lim' = r.lim
          /\ out' = out \o r.ret
    /\ lsRet' = "Some"
    /\ UNCHANGED <<srcVars, chunkVars, callVars, buf>>

\* LineSplitParse::next returns None; the guard stops the model at the first
\* None after all items, later calls change nothing
SplitNone ==
    /\ lsRet # "None"
    /\ LET r == LineSplitParseNext(buf, lim)
       IN /\ r.ret = <<>>
          /\ lim' = r.lim
    /\ lsRet' = "None"
    /\ UNCHANGED <<srcVars, chunkVars, callVars, buf, out>>

NextSplit ==
    \/ SplitSome
    \/ SplitNone

SpecSplit == InitSplit /\ [][NextSplit]_vars

\* ---- properties ---------------------------------------------------------
IsOk(it) == it.tag = "Ok"
NoErr == \A i \in 1..Len(items) : IsOk(items[i])
HasNL(s) == \E i \in 1..Len(s) : s[i] = NL

\* the chunks' bytes in the order yielded (an Err item carries none)
RECURSIVE ConcatData(_)
ConcatData(its) ==
    IF its = <<>> THEN <<>>
    ELSE ConcatData(SubSeq(its, 1, Len(its) - 1)) \o Last(its).data

\* next has returned None and no item was an error
EndedCleanly == pc = "idle" /\ ret = "None" /\ NoErr /\ ~endless

\* item i is the accumulator released at end of input
IsEofChunk(i) == i = Len(items) /\ eofFlush

\* the length of the longest run of s without '\n'
LongestRun(s) ==
    LET runs == {r \in (0..Len(s)) \X (0..Len(s)) :
                    /\ r[1] <= r[2]
                    /\ ~HasNL(Slice(s, r[1], r[2]))}
        lens == {r[2] - r[1] : r \in runs}
    IN CHOOSE n \in lens : \A k \in lens : k <= n

\* C1: when next has been pulled to None and no item was an error, the chunks
\* concatenated in the order yielded are exactly the input.
LosslessWhenNoError == EndedCleanly => ConcatData(items) = input

LosslessWitness ==
    /\ EndedCleanly
    /\ Len(items) >= 2
    /\ buffer = <<>>
    /\ eofFlush
    /\ Len(input) = MaxLen

\* C2: an input whose longest run without '\n' is at most max_line, read from
\* a source that never fails, yields no error item and, pulled to the end, the
\* chunks concatenate to the input.
NoErrorWithinMaxLine ==
    (started /\ ~endless /\ srcErr = "none" /\ LongestRun(input) <= max_line)
        => /\ NoErr
           /\ (pc = "idle" /\ ret = "None") => ConcatData(items) = input

\* C3: every chunk ends with '\n', except possibly the chunk released at end
\* of input.
Alignment ==
    \A i \in 1..Len(items) :
        (IsOk(items[i]) /\ ~IsEofChunk(i))
            => /\ items[i].data # <<>>
               /\ Last(items[i].data) = NL

AlignmentWitness ==
    /\ Len(items) >= 2
    /\ NoErr
    /\ eofFlush
    /\ Last(Last(items).data) # NL

\* C4: every chunk is at least min_chunk long, except the chunk released at
\* end of input.
Floor ==
    \A i \in 1..Len(items) :
        (IsOk(items[i]) /\ ~IsEofChunk(i)) => Len(items[i].data) >= min_chunk

FloorWitness ==
    /\ min_chunk >= 2
    /\ Len(items) >= 2
    /\ NoErr
    /\ Len(items[1].data) = min_chunk
    /\ eofFlush
    /\ Len(Last(items).data) < min_chunk
    /\ Last(Last(items).data) = NL

\* C5: once next has yielded an Err or returned None, no later step reads the
\* source or yields an item and every later call returns None; the items are
\* Ok chunks followed by at most one Err.
TerminalReached ==
    \/ items # <<>> /\ ~IsOk(Last(items))
    \/ ret = "None"

TerminalIsPermanent ==
    /\ [](\A i \in 1..(Len(items) - 1) : IsOk(items[i]))
    /\ [][TerminalReached =>
            /\ items' = items
            /\ ~didRead'
            /\ srcpos' = srcpos
            /\ (pc = "loop" /\ pc' = "idle") => ret' = "None"]_vars

TerminalWitness ==
    /\ pc = "idle"
    /\ ret = "None"
    /\ Len(items) >= 2
    /\ ~IsOk(Last(items))

\* C6: an input without '\n' that is longer than max_line (or endless), read
\* from a source that never fails, yields nothing until next finishes and
\* then exactly one item, the OutOfMemory error.
OversizedUnterminated ==
    (started /\ srcErr = "none" /\ ~HasNL(input)
             /\ (endless \/ Len(input) > max_line))
        => /\ items = IF finished THEN <<Err("OutOfMemory")>> ELSE <<>>
           /\ (pc = "idle" /\ ret # "NoCall") => finished

OversizedWitness ==
    /\ ~endless
    /\ ~HasNL(input)
    /\ max_line >= 2
    /\ Len(input) > max_line
    /\ srcErr = "none"
    /\ items = <<Err("OutOfMemory")>>
    /\ pc = "idle"
    /\ ret = "None"

\* C7: when a read of the source fails, that pull yields one Err carrying the
\* failure as the last item, the sequence is finished, and the bytes in the
\* accumulator at that moment stay out of every chunk: the chunks are the
\* delivered bytes before them, and no item follows.
SourceFailure ==
    /\ [](srcErr # "none" =>
            /\ finished
            /\ items # <<>>
            /\ Last(items) = Err(srcErr)
            /\ \A i \in 1..(Len(items) - 1) : IsOk(items[i])
            /\ ConcatData(items) \o accum = Stream(0, srcpos))
    /\ [][srcErr # "none" => items' = items /\ accum' = accum]_vars

SourceFailureWitness ==
    /\ srcErr # "none"
    /\ accum # <<>>
    /\ Len(items) >= 2
    /\ pc = "idle"
    /\ ret = "None"

RECURSIVE Segments(_)
Segments(s) ==
    IF ~HasNL(s) THEN <<s>>
    ELSE LET i == CHOOSE k \in 1..Len(s) :
                     s[k] = NL /\ \A j \in (k + 1)..Len(s) : s[j] # NL
         IN Append(Segments(SubSeq(s, 1, i - 1)), SubSeq(s, i + 1, Len(s)))

NonEmptyLines(s) == SelectSeq(Segments(s), LAMBDA seg : seg # <<>>)

ParsedLines(s) ==
    LET ls == NonEmptyLines(s) IN [i \in 1..Len(ls) |-> Parser(ls[i])]

\* C9: LineSplitParse yields the parser's results for the non-empty segments
\* of the chunk between '\n' bytes, in order, and after them None.
SplitterYieldsNonEmptyLines ==
    LET expected == ParsedLines(buf)
    IN /\ Len(out) <= Len(expected)
       /\ out = SubSeq(expected, 1, Len(out))
       /\ lsRet = "None" => out = expected

SplitterWitness ==
    /\ lsRet = "None"
    /\ buf = <<Filler, NL, NL, 98>>
    /\ out = <<Parser(<<Filler>>), Parser(<<98>>)>>

\* the lines of the chunks, each chunk split on its own, in chunk order
RECURSIVE LinesPerChunk(_)
LinesPerChunk(its) ==
    IF its = <<>> THEN <<>>
    ELSE LinesPerChunk(SubSeq(its, 1, Len(its) - 1)) \o PullAll(Last(its).data, 0)

\* the offset in the input of item i's first byte
StartOf(i) == Len(ConcatData(SubSeq(items, 1, i - 1)))

\* C10: after a run without error every chunk starts at the start of the
\* input or right after a '\n', and the lines of the chunks split one by one
\* are the lines of the whole input.
NoLineSpansTwoChunks ==
    EndedCleanly =>
        /\ \A i \in 1..Len(items) :
              StartOf(i) = 0 \/ input[StartOf(i)] = NL
        /\ LinesPerChunk(items) = PullAll(input, 0)

NoLineSpansWitness ==
    /\ EndedCleanly
    /\ Len(items) >= 2
    /\ Len(PullAll(input, 0)) >= 2
    /\ Last(input) # NL

\* C11: on an empty input the first call of next returns None and no item is
\* ever yielded, whatever the settings.
EmptyInputYieldsNothing ==
    (~endless /\ input = <<>> /\ srcErr = "none")
        => /\ items = <<>>
           /\ (pc = "idle" /\ started) => (ret = "None" /\ finished)

EmptyInputWitness ==
    /\ ~endless
    /\ input = <<>>
    /\ srcErr = "none"
    /\ didRead
    /\ pc = "idle"
    /\ ret = "None"
    /\ max_line = 0

\* C12: every chunk is non-empty, also with min_chunk 0, and an iteration that
\* does not finish the sequence yields a non-empty chunk or leaves a non-empty
\* accumulator, so the buf it assembled was non-empty.
ChunksNonEmpty ==
    /\ [](\A i \in 1..Len(items) : IsOk(items[i]) => items[i].data # <<>>)
    /\ [][(pc = "loop" /\ ~finished /\ ~finished')
             => IF pc' = "idle" THEN Last(items').data # <<>>
                                ELSE accum' # <<>>]_vars

ChunksNonEmptyWitness ==
    /\ min_chunk = 0
    /\ Len(items) >= 2
    /\ NoErr
    /\ Len(items[1].data) = 1
    /\ eofFlush

\* C13: when the input ends with '\n' and the run ends without error, every
\* chunk ends with '\n', the last one included.
AllChunksTerminated ==
    (EndedCleanly /\ input # <<>> /\ Last(input) = NL)
        => \A i \in 1..Len(items) :
              items[i].data # <<>> /\ Last(items[i].data) = NL

AllChunksTerminatedWitness ==
    /\ EndedCleanly
    /\ input # <<>>
    /\ Last(input) = NL
    /\ Len(items) >= 2
    /\ eofFlush
    /\ Len(Last(items).data) < min_chunk

Unemitted ==
    LET e == Len(ConcatData(items)) IN Stream(e, srcpos - e)

\* C15: an iteration that starts with the accumulator longer than max_line
\* sets finished and yields the OutOfMemory error without reading the source,
\* also when the source is exhausted; the accumulated bytes stay in the
\* accumulator, behind all chunks, and no item follows.
LineTooLongFirst ==
    /\ [][(pc = "loop" /\ ~finished /\ Len(accum) > max_line)
             => /\ finished'
                /\ items' = Append(items, Err("OutOfMemory"))
                /\ ~didRead'
                /\ srcpos' = srcpos
                /\ srcErr' = srcErr
                /\ accum' = accum
                /\ pc' = "idle"]_vars
    /\ []((items # <<>> /\ Last(items) = Err("OutOfMemory"))
             => /\ finished
                /\ Len(accum) > max_line
                /\ accum \o buffer = Unemitted)
    /\ [][(items # <<>> /\ Last(items) = Err("OutOfMemory"))
             => items' = items]_vars

LineTooLongWitness ==
    /\ ~endless
    /\ srcpos = Len(input)
    /\ buffer = <<>>
    /\ Len(items) >= 2
    /\ Last(items) = Err("OutOfMemory")
    /\ ret = "None"

\* C16: when the fill finds the source exhausted and the accumulator is
\* non-empty and within max_line, the pull yields the whole accumulator as an
\* Ok chunk and sets finished; an input without '\n' of at most max_line
\* bytes yields exactly one chunk, the input.
EndOfSourceFlush ==
    /\ [][(/\ pc = "loop" /\ ~finished
           /\ Len(accum) <= max_line
           /\ accum # <<>>
           /\ buffer = <<>> /\ ~endless /\ srcpos = Len(input)
           /\ srcErr' = "none")
             => /\ items' = Append(items, Ok(accum))
                /\ finished'
                /\ pc' = "idle"]_vars
    /\ [](eofFlush => finished /\ IsOk(Last(items)))
    /\ []((/\ started /\ ~endless /\ srcErr = "none"
           /\ input # <<>> /\ ~HasNL(input) /\ Len(input) <= max_line)
             => /\ items = IF finished THEN <<Ok(input)>> ELSE <<>>
                /\ pc = "idle" => finished)

EndOfSourceFlushWitness ==
    /\ items = <<Ok(input)>>
    /\ ~HasNL(input)
    /\ Len(input) >= 2
    /\ Len(input) = max_line
    /\ min_chunk > Len(input)
    /\ pc = "idle"
    /\ ret = "None"

\* C17: whenever next has returned an Ok chunk the accumulator is empty, and
\* between the pulls of an engine that is not finished it is empty.
AccumEmptyBetweenPulls ==
    /\ (pc = "idle" /\ ~finished) => accum = <<>>
    /\ (pc = "idle" /\ items # <<>> /\ IsOk(Last(items))) => accum = <<>>

AccumEmptyWitness ==
    /\ pc = "idle"
    /\ ~finished
    /\ items # <<>>
    /\ Len(Last(items).data) > chunksize
    /\ buffer # <<>>

\* C18 as stated: while the engine is not finished the accumulator is exactly
\* the delivered bytes that are in no chunk yet, none of them held elsewhere.
AccumIsAllUnemitted == ~finished => accum = Unemitted

\* C18: while the engine is not finished the accumulator followed by the
\* unconsumed bytes of the buffer is exactly the delivered bytes that are in
\* no chunk yet, so the accumulator alone is those bytes when the buffer is
\* empty.
AccumThenBufferIsUnemitted ==
    ~finished =>
        /\ Len(accum) + Len(buffer) = Len(Unemitted)
        /\ accum = SubSeq(Unemitted, 1, Len(accum))
        /\ buffer = SubSeq(Unemitted, Len(accum) + 1, Len(Unemitted))
        /\ buffer = <<>> => accum = Unemitted

AccumContentWitness ==
    /\ ~finished
    /\ pc = "loop"
    /\ items # <<>>
    /\ accum # <<>>
    /\ ~HasNL(accum)
    /\ buffer = <<>>
    /\ ~didRead

\* C19: while the engine is not finished, the chunks, then the accumulator,
\* then the unconsumed bytes of the buffer are exactly the bytes the source
\* has delivered; the chunks are always a prefix of the source's bytes, also
\* after an error.
ByteConservation ==
    /\ ~finished => ConcatData(items) \o accum \o buffer = Stream(0, srcpos)
    /\ Len(ConcatData(items)) <= srcpos
    /\ ConcatData(items) = Stream(0, Len(ConcatData(items)))

ByteConservationWitness ==
    /\ ~finished
    /\ items # <<>>
    /\ accum # <<>>
    /\ buffer # <<>>

\* C20: every call of next returns; an iteration that does not return makes
\* the accumulator longer; the accumulator and every chunk are at most
\* max_line + chunksize long.
PullTerminatesBounded ==
    /\ (pc = "loop") ~> (pc = "idle")
    /\ [][(pc = "loop" /\ pc' = "loop") => Len(accum') > Len(accum)]_vars
    /\ [](/\ Len(accum) <= max_line + chunksize
          /\ \A i \in 1..Len(items) :
                Len(items[i].data) <= max_line + chunksize)

PullTerminatesWitness ==
    /\ endless
    /\ max_line = chunksize * 32
    /\ chunksize >= 2
    /\ Len(accum) = max_line + chunksize
    /\ items = <<Err("OutOfMemory")>>
    /\ pc = "idle"

====
